---- MODULE Spec2Model ----
(***************************************************************************)
(* Model of the regtest peripheral-access test library (regtest.h) and of  *)
(* the two programs of the repository that use it (experiment.cpp and      *)
(* examples/example.c built with -DTEST).                                  *)
(*                                                                         *)
(* The program state is the global queue ropq of expected register         *)
(* operations, the backing words of the Reg32 cells, and the position of   *)
(* the running program.  raise(SIGINT) either terminates the process       *)
(* (default disposition) or returns (the signal is ignored, handled, or a  *)
(* debugger stops on it and resumes), depending on the disposition the     *)
(* process was started with; the library never changes it.                 *)
(***************************************************************************)
EXTENDS Integers, Sequences, FiniteSets, TLC

\* ------------------------------------------------------------------ bounds
\* Largest number of expect_read/expect_write calls of a free test script.
MaxPush == 2

\* Largest number of register accesses of a free test script.
MaxAcc == 3

\* Width of the modelled register word.  The source word is uint32_t; the
\* model keeps a narrower word so that the all-ones word stays representable.
WordBits == 8

\* --------------------------------------------------------------- constants
\* static volatile Device* dev = (volatile Device*) 0x20000800;
DevBase == 536873984

\* sizeof(Reg32): one uint32_t
RegSize == 4

\* struct Device { Reg32 cr; Reg32 dr; Reg32 isr; Reg32 icr; };
Device == <<"cr", "dr", "isr", "icr">>

\* Index of field f in the struct layout.
FieldIndex(f) == CHOOSE i \in 1..Len(Device) : Device[i] = f

\* pseudo-value: the call did not return a value (void, or process killed)
NoRet == 0 - 2

\* main: return -1 after a failed mmap
MapFailed == 0 - 1

\* variant: ret starts as 0
Sentinel_zero == 0 % (2 ^ WordBits)

\* (uint32_t) -1
Sentinel == (0 - 1) % (2 ^ WordBits)

\* Cells and values a free test script draws its arguments from.
Cells == {"cr", "isr"}
Vals == {0, Sentinel}

Builds == {"regtest", "experiment"}
Dispositions == {"SIG_DFL", "SIG_IGN"}
Progs == {"script", "main"}

VARIABLES
    build,      \* which translation unit runs: regtest.h (+example.c) or experiment.cpp
    sigint,     \* disposition of SIGINT the process was started with
    prog,       \* "script": an arbitrary test script; "main": the example main
    pc,         \* position in main (0 = before mmap, Len(Main)+1 = returned)
    ropq,       \* std::queue<ROp> ropq
    mem,        \* Reg32::v of every cell of the device
    aborted,    \* the process was terminated by the raised signal
    mainRet,    \* return value of main (NoRet while running)
    violated,   \* history: some violation has been reported
    pushed,     \* history: every expectation pushed so far, in call order
    nacc,       \* history: number of register accesses performed so far
    pushedCell, \* history: the cell whose address was taken for each push
    matched,    \* history: the entries the accesses removed from the queue, in order
    nok,        \* history: number of accesses that reported no violation
    faithful,   \* history: access k had the direction, cell and value of pushed[k]
    poll,       \* the poll loop `while (cell == 0) {}` being executed, if any:
                \* its cell, the queue length at its entry, its reads so far
    obs,        \* history: values the poll loops of main have read so far
    last        \* history: the last operation, its arguments, the queue before it,
                \*          the violation it reported and the value it returned

vars == <<build, sigint, prog, pc, ropq, mem, aborted, mainRet,
          violated, pushed, pushedCell, matched, nacc, nok, faithful,
          poll, obs, last>>

\* ------------------------------------------------------------ pure helpers
\* struct ROp { adr; val; write; }
ROp(adr, val, write) == [adr |-> adr, val |-> val, write |-> write]

\* variant: the word of the cell is returned in place of its address
Reg32_addr_ofValue(c) == mem[FieldIndex(c)]

\* const volatile uint32_t* Reg32::operator&() : &this->v
Reg32_addr(c) == DevBase + RegSize * (FieldIndex(c) - 1)

\* variant: the expectation is put at the head of the queue
expect_read_atFront(q, adr, val) == <<ROp(adr, val, FALSE)>> \o q

\* void expect_read(adr, val) { ropq.emplace(adr, val, false); }
expect_read(q, adr, val) == Append(q, ROp(adr, val, FALSE))

\* variant: the expectation is queued as a read
expect_write_asRead(q, adr, val) == Append(q, ROp(adr, val, FALSE))

\* void expect_write(adr, val) { ropq.emplace(adr, val, true); }
expect_write(q, adr, val) == Append(q, ROp(adr, val, TRUE))

\* variant: the leftover expectations are dropped on failure
expect_rest_clears(q) ==
    IF q # <<>>
    THEN [viol |-> "Leftover", q |-> <<>>, ret |-> 1]
    ELSE [viol |-> "None", q |-> q, ret |-> 0]

\* variant: a failing checkpoint discards the head of the queue
expect_rest_popsOne(q) ==
    IF q # <<>>
    THEN [viol |-> "Leftover", q |-> Tail(q), ret |-> 1]
    ELSE [viol |-> "None", q |-> q, ret |-> 0]

\* int expect_rest(): the queue test, the message and the return code
expect_rest(q) ==
    IF q # <<>>
    THEN [viol |-> "Leftover", q |-> q, ret |-> 1]
    ELSE [viol |-> "None", q |-> q, ret |-> 0]

\* variant: a matching write leaves the head in the queue
Reg32_assign_noPop(q, a, v) ==
    IF q = <<>> \/ Head(q).write = FALSE \/ Head(q).adr # a
    THEN [viol |-> "UnexpectedWrite", q |-> q, ret |-> v]
    ELSE IF Head(q).val # v
         THEN [viol |-> "WrongWriteValue", q |-> q, ret |-> v]
         ELSE [viol |-> "None", q |-> q, ret |-> v]

\* variant: a write of a wrong value discards the head of the queue
Reg32_assign_popsWrongValue(q, a, v) ==
    IF q = <<>> \/ Head(q).write = FALSE \/ Head(q).adr # a
    THEN [viol |-> "UnexpectedWrite", q |-> q, ret |-> v]
    ELSE IF Head(q).val # v
         THEN [viol |-> "WrongWriteValue", q |-> Tail(q), ret |-> v]
         ELSE [viol |-> "None", q |-> Tail(q), ret |-> v]

\* variant: the address of the head is not compared
Reg32_assign_anyAddress(q, a, v) ==
    IF q = <<>> \/ Head(q).write = FALSE
    THEN [viol |-> "UnexpectedWrite", q |-> q, ret |-> v]
    ELSE IF Head(q).val # v
         THEN [viol |-> "WrongWriteValue", q |-> q, ret |-> v]
         ELSE [viol |-> "None", q |-> Tail(q), ret |-> v]

\* variant: the value is compared before the address
Reg32_assign_valueFirst(q, a, v) ==
    IF q = <<>> \/ Head(q).write = FALSE
    THEN [viol |-> "UnexpectedWrite", q |-> q, ret |-> v]
    ELSE IF Head(q).val # v
         THEN [viol |-> "WrongWriteValue", q |-> q, ret |-> v]
         ELSE IF Head(q).adr # a
              THEN [viol |-> "UnexpectedWrite", q |-> q, ret |-> v]
              ELSE [viol |-> "None", q |-> Tail(q), ret |-> v]

\* variant: a matching write empties the queue
Reg32_assign_clearsQueue(q, a, v) ==
    IF q = <<>> \/ Head(q).write = FALSE \/ Head(q).adr # a
    THEN [viol |-> "UnexpectedWrite", q |-> q, ret |-> v]
    ELSE IF Head(q).val # v
         THEN [viol |-> "WrongWriteValue", q |-> q, ret |-> v]
         ELSE [viol |-> "None", q |-> <<>>, ret |-> v]

\* uint32_t Reg32::operator=(uint32_t v) volatile: the queue check
Reg32_assign(q, a, v) ==
    IF q = <<>> \/ Head(q).write = FALSE \/ Head(q).adr # a
    THEN [viol |-> "UnexpectedWrite", q |-> q, ret |-> v]
    ELSE IF Head(q).val # v
         THEN [viol |-> "WrongWriteValue", q |-> q, ret |-> v]
         ELSE [viol |-> "None", q |-> Tail(q), ret |-> v]

\* experiment.cpp only: return this->v = v;
Reg32_store(m, c, v) == [m EXCEPT ![c] = v]

\* variant: a read that does not match the head takes the first expected read
\* of the cell found deeper in the queue
Reg32_read_lookahead(q, m, a) ==
    LET hits == {i \in 1..Len(q) : q[i].adr = a /\ q[i].write = FALSE}
        i == CHOOSE j \in hits : \A k \in hits : j <= k
    IN  IF hits = {}
        THEN [viol |-> "UnexpectedRead", q |-> q, ret |-> Sentinel]
        ELSE [viol |-> "None",
              q |-> SubSeq(q, 1, i - 1) \o SubSeq(q, i + 1, Len(q)),
              ret |-> q[i].val]

\* variant: the direction of the head is not compared
Reg32_read_anyDirection(q, m, a) ==
    IF q = <<>> \/ Head(q).adr # a
    THEN [viol |-> "UnexpectedRead", q |-> q, ret |-> Sentinel]
    ELSE [viol |-> "None", q |-> Tail(q), ret |-> Head(q).val]

\* variant: a matching read returns the backing word of the cell
Reg32_read_backingWord(q, m, a) ==
    IF q = <<>> \/ Head(q).write = TRUE \/ Head(q).adr # a
    THEN [viol |-> "UnexpectedRead", q |-> q, ret |-> Sentinel]
    ELSE [viol |-> "None", q |-> Tail(q), ret |-> m[(a - DevBase) \div RegSize + 1]]

\* variant: a read on an empty queue passes
Reg32_read_emptyPasses(q, m, a) ==
    IF q = <<>>
    THEN [viol |-> "None", q |-> q, ret |-> 0]
    ELSE IF Head(q).write = TRUE \/ Head(q).adr # a
         THEN [viol |-> "UnexpectedRead", q |-> q, ret |-> Sentinel]
         ELSE [viol |-> "None", q |-> Tail(q), ret |-> Head(q).val]

\* variant: a read that does not match discards the head of the queue
Reg32_read_popsOnMismatch(q, m, a) ==
    IF q = <<>> \/ Head(q).write = TRUE \/ Head(q).adr # a
    THEN [viol |-> "UnexpectedRead",
          q |-> IF q = <<>> THEN q ELSE Tail(q), ret |-> Sentinel]
    ELSE [viol |-> "None", q |-> Tail(q), ret |-> Head(q).val]

\* variant: ret is loaded from the head of the queue before the test
Reg32_read_returnsHead(q, m, a) ==
    IF q = <<>> \/ Head(q).write = TRUE \/ Head(q).adr # a
    THEN [viol |-> "UnexpectedRead", q |-> q,
          ret |-> IF q = <<>> THEN Sentinel ELSE Head(q).val]
    ELSE [viol |-> "None", q |-> Tail(q), ret |-> Head(q).val]

\* Reg32::operator uint32_t() volatile
Reg32_read(q, m, a) ==
    IF q = <<>> \/ Head(q).write = TRUE \/ Head(q).adr # a
    THEN [viol |-> "UnexpectedRead", q |-> q, ret |-> Sentinel]
    ELSE [viol |-> "None", q |-> Tail(q), ret |-> Head(q).val]

\* variant: the signal never terminates the process
Raise_returns(d) == FALSE

\* raise(SIGINT): TRUE iff the process is terminated by the signal
Raise(d) == d = "SIG_DFL"

\* int main() of experiment.cpp / examples/example.c, statement by statement
Main == <<
    [op |-> "expect_write", cell |-> "cr",  val |-> 1],
    [op |-> "expect_read",  cell |-> "isr", val |-> 0],
    [op |-> "expect_read",  cell |-> "isr", val |-> 0],
    [op |-> "expect_read",  cell |-> "isr", val |-> 1],
    [op |-> "write",        cell |-> "cr",  val |-> 1],
    [op |-> "poll",         cell |-> "isr", val |-> 0],
    [op |-> "expect_rest",  cell |-> "cr",  val |-> 0],
    [op |-> "expect_write", cell |-> "dr",  val |-> 32],
    [op |-> "expect_read",  cell |-> "isr", val |-> 0],
    [op |-> "expect_read",  cell |-> "isr", val |-> 0],
    [op |-> "expect_read",  cell |-> "isr", val |-> 1],
    [op |-> "write",        cell |-> "dr",  val |-> 32],
    [op |-> "poll",         cell |-> "isr", val |-> 0],
    [op |-> "expect_rest",  cell |-> "cr",  val |-> 0],
    [op |-> "expect_write", cell |-> "cr",  val |-> 0],
    [op |-> "write",        cell |-> "cr",  val |-> 0],
    [op |-> "expect_rest",  cell |-> "cr",  val |-> 0],
    [op |-> "return",       cell |-> "cr",  val |-> 0] >>

Returned == Len(Main) + 1

\* The entries of the queue q0 that are no longer in the queue q1 an access
\* left behind: the one entry whose removal turns q0 into q1 (the first such
\* one), else everything q0 lost at its head.
Removed(q0, q1) ==
    LET at == {i \in 1..Len(q0) :
                  q1 = SubSeq(q0, 1, i - 1) \o SubSeq(q0, i + 1, Len(q0))}
    IN  IF q1 = q0 THEN <<>>
        ELSE IF q1 = Tail(q0) THEN <<Head(q0)>>
        ELSE IF at # {} THEN <<q0[CHOOSE i \in at : \A j \in at : i <= j]>>
        ELSE SubSeq(q0, 1, Len(q0) - Len(q1))

\* ------------------------------------------------------------------- Init
NoOp == [op |-> "none", adr |-> 0, val |-> 0, pre |-> <<>>,
         viol |-> "None", ret |-> NoRet]

\* no poll loop is being executed
NoPoll == [active |-> FALSE, cell |-> "none", start |-> 0, reads |-> 0]

Init ==
    /\ build \in Builds
    /\ sigint \in Dispositions
    /\ prog \in Progs
    /\ pc = 0
    /\ ropq = <<>>
    /\ mem = [i \in 1..Len(Device) |-> 0]
    /\ aborted = FALSE
    /\ mainRet = NoRet
    /\ violated = FALSE
    /\ pushed = <<>>
    /\ pushedCell = <<>>
    /\ matched = <<>>
    /\ nacc = 0
    /\ nok = 0
    /\ faithful = TRUE
    /\ poll = NoPoll
    /\ obs = <<>>
    /\ last = NoOp

\* ---------------------------------------------------------------- effects
\* The state change of one call of each operation (pc, and what a caller
\* does with the value returned, are left to the caller).

DoExpectRead(c, v) ==
    /\ ropq' = expect_read(ropq, Reg32_addr(c), v)
    /\ pushed' = Append(pushed, ROp(Reg32_addr(c), v, FALSE))
    /\ pushedCell' = Append(pushedCell, c)
    /\ last' = [op |-> "expect_read", adr |-> Reg32_addr(c), val |-> v,
                pre |-> ropq, viol |-> "None", ret |-> NoRet]
    /\ UNCHANGED <<mem, aborted, violated, matched, nacc, nok, faithful, obs>>

DoExpectWrite(c, v) ==
    /\ ropq' = expect_write(ropq, Reg32_addr(c), v)
    /\ pushed' = Append(pushed, ROp(Reg32_addr(c), v, TRUE))
    /\ pushedCell' = Append(pushedCell, c)
    /\ last' = [op |-> "expect_write", adr |-> Reg32_addr(c), val |-> v,
                pre |-> ropq, viol |-> "None", ret |-> NoRet]
    /\ UNCHANGED <<mem, aborted, violated, matched, nacc, nok, faithful, obs>>

\* expect_rest is int in regtest.h and void in experiment.cpp
DoExpectRest ==
    LET r == expect_rest(ropq)
        killed == r.viol # "None" /\ Raise(sigint)
    IN  /\ ropq' = r.q
        /\ aborted' = killed
        /\ violated' = (violated \/ r.viol # "None")
        /\ last' = [op |-> "expect_rest", adr |-> 0, val |-> 0, pre |-> ropq,
                    viol |-> r.viol,
                    ret |-> IF killed \/ build = "experiment" THEN NoRet ELSE r.ret]
        /\ UNCHANGED <<mem, pushed, pushedCell, matched, nacc, nok, faithful, obs>>

DoWrite(c, v) ==
    LET r == Reg32_assign(ropq, Reg32_addr(c), v)
        killed == r.viol # "None" /\ Raise(sigint)
        k == nacc + 1
    IN  /\ ropq' = r.q
        /\ aborted' = killed
        /\ violated' = (violated \/ r.viol # "None")
        /\ mem' = IF ~killed /\ build = "experiment"
                  THEN Reg32_store(mem, FieldIndex(c), v) ELSE mem
        /\ matched' = matched \o Removed(ropq, r.q)
        /\ nacc' = k
        /\ nok' = IF r.viol = "None" THEN nok + 1 ELSE nok
        /\ faithful' = (/\ faithful
                        /\ k <= Len(pushed)
                        /\ pushed[k] = ROp(Reg32_addr(c), v, TRUE))
        /\ last' = [op |-> "write", adr |-> Reg32_addr(c), val |-> v, pre |-> ropq,
                    viol |-> r.viol, ret |-> IF killed THEN NoRet ELSE r.ret]
        /\ UNCHANGED <<pushed, pushedCell, obs>>

DoRead(c) ==
    LET r == Reg32_read(ropq, mem, Reg32_addr(c))
        killed == r.viol # "None" /\ Raise(sigint)
        k == nacc + 1
    IN  /\ ropq' = r.q
        /\ aborted' = killed
        /\ violated' = (violated \/ r.viol # "None")
        /\ matched' = matched \o Removed(ropq, r.q)
        /\ nacc' = k
        /\ nok' = IF r.viol = "None" THEN nok + 1 ELSE nok
        /\ faithful' = (/\ faithful
                        /\ k <= Len(pushed)
                        /\ pushed[k].adr = Reg32_addr(c)
                        /\ pushed[k].write = FALSE)
        /\ last' = [op |-> "read", adr |-> Reg32_addr(c), val |-> 0, pre |-> ropq,
                    viol |-> r.viol, ret |-> IF killed THEN NoRet ELSE r.ret]
        /\ UNCHANGED <<mem, pushed, pushedCell>>

\* One evaluation of the condition of `while (c == 0) {}`: a read of c; the
\* loop goes on iff the read returned 0.
DoPoll(c) ==
    /\ DoRead(c)
    /\ poll' = IF ~aborted' /\ last'.ret = 0
               THEN [active |-> TRUE, cell |-> c,
                     start |-> IF poll.active THEN poll.start ELSE Len(ropq),
                     reads |-> IF poll.active THEN poll.reads + 1 ELSE 1]
               ELSE NoPoll

\* ------------------------------------------------- actions: a test script
Running == ~aborted

\* The script is between statements (not inside a poll loop).
Idle == Running /\ prog = "script" /\ ~poll.active

ExpectRead ==
    /\ Idle /\ Len(pushed) < MaxPush
    /\ \E c \in Cells, v \in Vals : DoExpectRead(c, v)
    /\ UNCHANGED <<build, sigint, prog, pc, mainRet, poll>>

ExpectWrite ==
    /\ Idle /\ Len(pushed) < MaxPush
    /\ \E c \in Cells, v \in Vals : DoExpectWrite(c, v)
    /\ UNCHANGED <<build, sigint, prog, pc, mainRet, poll>>

ExpectRest ==
    /\ Idle
    /\ DoExpectRest
    /\ UNCHANGED <<build, sigint, prog, pc, mainRet, poll>>

Write ==
    /\ Idle /\ nacc < MaxAcc
    /\ \E c \in Cells, v \in Vals : DoWrite(c, v)
    /\ UNCHANGED <<build, sigint, prog, pc, mainRet, poll>>

Read ==
    /\ Idle /\ nacc < MaxAcc
    /\ \E c \in Cells : DoRead(c)
    /\ UNCHANGED <<build, sigint, prog, pc, mainRet, poll, obs>>

\* while (dev->c == 0) {};   in a test script: one evaluation of the condition.
\* The loop is entered only within the access budget; once entered it runs
\* until its condition fails.
Poll ==
    /\ Running /\ prog = "script"
    /\ poll.active \/ nacc < MaxAcc
    /\ \E c \in Cells : (poll.active => c = poll.cell) /\ DoPoll(c)
    /\ UNCHANGED <<build, sigint, prog, pc, mainRet, obs>>

\* ------------------------------------------------ actions: the example main
AtStmt(o) == /\ Running /\ prog = "main" /\ pc \in 1..Len(Main) /\ Main[pc].op = o

\* experiment.cpp: mmap of the page holding dev; it may fail (return -1).
\* example.c has no such step.
MainMmap ==
    /\ Running /\ prog = "main" /\ pc = 0
    /\ \/ pc' = 1 /\ mainRet' = mainRet
       \/ build = "experiment" /\ pc' = Returned /\ mainRet' = MapFailed
    /\ UNCHANGED <<build, sigint, prog, ropq, mem, aborted,
                   violated, pushed, pushedCell, matched, nacc, nok, faithful,
                   poll, obs, last>>

MainExpectRead ==
    /\ AtStmt("expect_read")
    /\ DoExpectRead(Main[pc].cell, Main[pc].val)
    /\ pc' = pc + 1
    /\ UNCHANGED <<build, sigint, prog, mainRet, poll>>

MainExpectWrite ==
    /\ AtStmt("expect_write")
    /\ DoExpectWrite(Main[pc].cell, Main[pc].val)
    /\ pc' = pc + 1
    /\ UNCHANGED <<build, sigint, prog, mainRet, poll>>

MainExpectRest ==
    /\ AtStmt("expect_rest")
    /\ DoExpectRest
    /\ pc' = pc + 1
    /\ UNCHANGED <<build, sigint, prog, mainRet, poll>>

MainWrite ==
    /\ AtStmt("write")
    /\ DoWrite(Main[pc].cell, Main[pc].val)
    /\ pc' = pc + 1
    /\ UNCHANGED <<build, sigint, prog, mainRet, poll>>

\* while (dev->isr == 0) {};   one evaluation of the loop condition
MainPoll ==
    /\ AtStmt("poll")
    /\ DoPoll(Main[pc].cell)
    /\ pc' = IF last'.ret = 0 THEN pc ELSE pc + 1
    /\ obs' = IF aborted' THEN obs ELSE Append(obs, last'.ret)
    /\ UNCHANGED <<build, sigint, prog, mainRet>>

MainReturn ==
    /\ AtStmt("return")
    /\ pc' = Returned
    /\ mainRet' = Main[pc].val
    /\ UNCHANGED <<build, sigint, prog, ropq, mem, aborted,
                   violated, pushed, pushedCell, matched, nacc, nok, faithful,
                   poll, obs, last>>

Next ==
    \/ ExpectRead
    \/ ExpectWrite
    \/ ExpectRest
    \/ Write
    \/ Read
    \/ Poll
    \/ MainMmap
    \/ MainExpectRead
    \/ MainExpectWrite
    \/ MainExpectRest
    \/ MainWrite
    \/ MainPoll
    \/ MainReturn

Spec == Init /\ [][Next]_vars

\* ------------------------------------------------------------ sanity
TypeOK ==
    /\ build \in Builds
    /\ sigint \in Dispositions
    /\ prog \in Progs
    /\ pc \in 0..Returned
    /\ aborted \in BOOLEAN
    /\ violated \in BOOLEAN
    /\ faithful \in BOOLEAN
    /\ nacc \in Nat
    /\ \A i \in 1..Len(ropq) : ropq[i].write \in BOOLEAN

\* ================================================================= claims
\* Shorthands over the record of the last operation.
LastRead == last.op = "read"
LastWrite == last.op = "write"
LastRest == last.op = "expect_rest"
PreFront == Head(last.pre)
PreNonEmpty == last.pre # <<>>

\* ---------------------------------------------------------------------- C1
\* C1: when every access so far was the k-th access with the direction, the
\* cell and (for a write) the value of the k-th pushed expectation, no access
\* has reported a violation, and once as many accesses as pushes have been
\* made the queue is empty.
C1_InOrderPasses ==
    faithful =>
        /\ (LastRead \/ LastWrite) => last.viol = "None" /\ ~aborted
        /\ nacc = Len(pushed) => ropq = <<>>

\* Expectations of both directions, on different cells, were pushed and then
\* matched in order.
C1_Witness ==
    /\ prog = "script" /\ faithful
    /\ Len(pushed) >= 2 /\ nacc = Len(pushed)
    /\ \E i, j \in 1..Len(pushed) : pushed[i].write /\ ~pushed[j].write
    /\ \E i, j \in 1..Len(pushed) : pushed[i].adr # pushed[j].adr
    /\ ropq = <<>> /\ ~violated

\* ---------------------------------------------------------------------- C2
\* The case of C2: the last operation wrote V to C while the head of the
\* queue was an expected write of E # V to C.
C2_Case ==
    /\ LastWrite /\ PreNonEmpty
    /\ PreFront.write /\ PreFront.adr = last.adr /\ PreFront.val # last.val

\* C2 as stated: a write of a wrong value reports WrongWriteValue and the head
\* of the queue is consumed.
C2_Original ==
    C2_Case => last.viol = "WrongWriteValue" /\ ropq = Tail(last.pre)

\* C2 amended: a write of a wrong value reports WrongWriteValue and leaves the
\* queue as it was, the mismatched expectation still pending at its head.
C2_WrongValueKeepsHead ==
    C2_Case =>
        /\ last.viol = "WrongWriteValue"
        /\ ropq = last.pre
        /\ Head(ropq) = PreFront

C2_Witness ==
    /\ C2_Case /\ last.viol = "WrongWriteValue"
    /\ Len(ropq) >= 2 /\ ~aborted

\* ---------------------------------------------------------------------- C3
\* C3 as stated: once a violation has been reported nothing is executed any
\* more, and the violating operation returns no value.
C3_Original ==
    [][violated' => (~violated /\ last'.viol # "None" /\ last'.ret = NoRet)]_vars

\* C3 amended: when SIGINT has its default disposition, the operation that
\* reports a violation terminates the process without returning a value, and
\* no operation is executed afterwards; when the signal does not terminate the
\* process, the violating operation returns and the run goes on.
C3_FailFastUnderDefault ==
    [][/\ (violated' /\ sigint = "SIG_DFL") =>
              (~violated /\ last'.viol # "None" /\ last'.ret = NoRet /\ aborted')
       /\ (violated' /\ sigint # "SIG_DFL") => ~aborted']_vars

\* A violation was reported under the default disposition and the process died.
C3_Witness ==
    /\ violated /\ sigint = "SIG_DFL" /\ aborted
    /\ last.viol \in {"UnexpectedRead", "UnexpectedWrite", "WrongWriteValue", "Leftover"}
    /\ last.ret = NoRet

\* ---------------------------------------------------------------------- C4
\* C4: expect_rest reports nothing exactly when the queue was empty at the
\* call, reports Leftover otherwise, returns 0 exactly when the queue was empty
\* (regtest.h, where it returns int) and 1 when it returns after a failure, and
\* leaves the queue as it was.
C4_ExpectRest ==
    LastRest =>
        /\ ropq = last.pre
        /\ last.viol = "None" <=> last.pre = <<>>
        /\ last.pre # <<>> => last.viol = "Leftover" /\ last.ret # 0
        /\ build = "regtest" =>
              /\ last.ret = 0 <=> last.pre = <<>>
              /\ (last.pre # <<>> /\ ~aborted) => last.ret = 1

\* K = 2 expectations pushed, K-1 consumed in order, then expect_rest failed
\* and returned 1.
C4_Witness ==
    /\ LastRest /\ build = "regtest"
    /\ Len(pushed) >= 2 /\ nacc = Len(pushed) - 1 /\ faithful
    /\ Len(last.pre) = 1 /\ ropq = last.pre
    /\ last.viol = "Leftover" /\ last.ret = 1

\* ---------------------------------------------------------------------- C5
\* C5: a read of C while the head of the queue is an expected write to C
\* reports UnexpectedRead, leaves the queue as it was and returns, if it
\* returns, the fixed word (uint32_t)-1 and not a word taken from the queue;
\* a write to C while the head is an expected read of C reports
\* UnexpectedWrite whatever the value written.
C5_DirectionSensitive ==
    /\ (LastRead /\ PreNonEmpty /\ PreFront.write /\ PreFront.adr = last.adr) =>
          /\ last.viol = "UnexpectedRead"
          /\ ropq = last.pre
          /\ last.ret \in {NoRet, Sentinel}
    /\ (LastWrite /\ PreNonEmpty /\ ~PreFront.write /\ PreFront.adr = last.adr) =>
          last.viol = "UnexpectedWrite"

\* A read hit an expected write of 0 to the same cell, and the run went on.
C5_Witness ==
    /\ LastRead /\ PreNonEmpty /\ PreFront.write /\ PreFront.adr = last.adr
    /\ PreFront.val = 0 /\ last.viol = "UnexpectedRead"
    /\ last.ret = Sentinel /\ ropq = last.pre

\* ---------------------------------------------------------------------- C6
\* C6: an access of the direction of the head of the queue, on another cell
\* than the head's, reports UnexpectedRead (read) or UnexpectedWrite (write).
C6_AddressSensitive ==
    /\ (LastRead /\ PreNonEmpty /\ ~PreFront.write /\ PreFront.adr # last.adr) =>
          last.viol = "UnexpectedRead"
    /\ (LastWrite /\ PreNonEmpty /\ PreFront.write /\ PreFront.adr # last.adr) =>
          last.viol = "UnexpectedWrite"

\* A write to B of the value expected for A, with an expected write to B
\* second in the queue.
C6_Witness ==
    /\ LastWrite /\ Len(last.pre) >= 2
    /\ PreFront.write /\ PreFront.adr # last.adr /\ PreFront.val = last.val
    /\ last.pre[2] = ROp(last.adr, last.val, TRUE)
    /\ last.viol = "UnexpectedWrite"

\* ---------------------------------------------------------------------- C7
\* C7: a read of C while the head of the queue is Read(C, V) reports nothing,
\* returns V and removes exactly the head.
C7_ReadValueFidelity ==
    (LastRead /\ PreNonEmpty /\ ~PreFront.write /\ PreFront.adr = last.adr) =>
        /\ last.viol = "None"
        /\ last.ret = PreFront.val
        /\ ropq = Tail(last.pre)

\* A matching read returned V while the backing word of the cell, set by an
\* earlier write, holds another value.
C7_Witness ==
    /\ LastRead /\ PreNonEmpty /\ ~PreFront.write /\ PreFront.adr = last.adr
    /\ last.viol = "None" /\ last.ret = PreFront.val
    /\ \E c \in Cells : /\ Reg32_addr(c) = last.adr
                        /\ mem[FieldIndex(c)] # last.ret
                        /\ mem[FieldIndex(c)] # 0

\* ---------------------------------------------------------------------- C8
\* C8: a write reports WrongWriteValue exactly when the head of the queue is a
\* write to the same cell with another value, and UnexpectedWrite exactly when
\* the queue is empty, the head is a read, or the head is on another cell.
C8_WriteFaults ==
    LastWrite =>
        /\ last.viol = "WrongWriteValue" <=>
              (/\ PreNonEmpty /\ PreFront.write
               /\ PreFront.adr = last.adr /\ PreFront.val # last.val)
        /\ last.viol = "UnexpectedWrite" <=>
              (\/ ~PreNonEmpty
               \/ ~PreFront.write
               \/ PreFront.adr # last.adr)

\* A write wrong in both the cell and the value reported UnexpectedWrite.
C8_Witness ==
    /\ LastWrite /\ PreNonEmpty /\ PreFront.write
    /\ PreFront.adr # last.adr /\ PreFront.val # last.val
    /\ last.viol = "UnexpectedWrite"

\* ---------------------------------------------------------------------- C9
\* C9: the example main reports no violation; its first poll loop makes three
\* reads that return 0, 0, 1, the checkpoint after it finds the queue empty and
\* succeeds; the same holds for the dr phase and the final cr phase, and main
\* returns 0 (unless the mmap of experiment.cpp failed before the first push).
C9_ExampleMain ==
    prog = "main" =>
        /\ ~violated /\ ~aborted
        /\ pc = 6 => Len(obs) < 3
        /\ pc = 7 => obs = <<0, 0, 1>> /\ nacc = 4 /\ ropq = <<>>
        /\ pc = 13 => Len(obs) < 6
        /\ pc = 14 => obs = <<0, 0, 1, 0, 0, 1>> /\ nacc = 8 /\ ropq = <<>>
        /\ pc = 18 => nacc = 9 /\ ropq = <<>>
        /\ pc \in {8, 15, 18} =>
              /\ LastRest /\ last.viol = "None" /\ ropq = <<>>
              /\ build = "regtest" => last.ret = 0
        /\ pc = Returned => \/ mainRet = 0 /\ Len(pushed) = 9 /\ ropq = <<>>
                            \/ /\ mainRet = MapFailed /\ pushed = <<>>
                               /\ build = "experiment"

\* main returned 0 after its three phases.
C9_Witness ==
    /\ prog = "main" /\ pc = Returned /\ mainRet = 0
    /\ obs = <<0, 0, 1, 0, 0, 1>> /\ nacc = 9 /\ ropq = <<>> /\ ~violated

\* --------------------------------------------------------------------- C10
\* C10: a read made while the queue is empty reports UnexpectedRead.
C10_ReadOnEmptyQueue ==
    (LastRead /\ ~PreNonEmpty) => last.viol = "UnexpectedRead" /\ ropq = <<>>

\* A write and the polled reads drained the queue in order; one more read of
\* isr, with nothing pushed, was reported.  (Under the default disposition the
\* first violation ends the run, so every earlier access matched.)
C10_Witness ==
    /\ prog = "script" /\ sigint = "SIG_DFL"
    /\ Len(pushed) >= 2 /\ pushed[1].write
    /\ nacc = Len(pushed) + 1
    /\ LastRead /\ last.adr = Reg32_addr("isr") /\ last.pre = <<>>
    /\ last.viol = "UnexpectedRead" /\ aborted

\* --------------------------------------------------------------------- C11
\* C11: the entries removed so far followed by the pending queue are exactly
\* the expectations pushed so far, in push order; a push made while entries
\* are pending leaves them in place and in order, and an access leaves the
\* queue as it was or removes its head, never another entry.
C11_Fifo ==
    /\ matched \o ropq = pushed
    /\ (last.op \in {"expect_read", "expect_write"} /\ PreNonEmpty) =>
          /\ Head(ropq) = PreFront
          /\ SubSeq(ropq, 1, Len(last.pre)) = last.pre
    /\ (LastRead \/ LastWrite) => ropq = last.pre \/ ropq = Tail(last.pre)

\* A push was made while another entry was pending; an access that matched
\* only the newer entry was reported, and the next access removed the older
\* one and left the newer one pending.
C11_Witness ==
    /\ prog = "script" /\ (LastRead \/ LastWrite)
    /\ Len(matched) = 1 /\ Len(ropq) = 1 /\ Len(pushed) = 2
    /\ Len(last.pre) = 2 /\ last.pre[1] # last.pre[2]
    /\ last.viol = "None" /\ ropq = Tail(last.pre)
    /\ matched = <<pushed[1]>> /\ ropq = <<pushed[2]>>
    /\ nacc > Len(matched)

\* --------------------------------------------------------------------- C12
\* C12: expect_read(cell, v) and expect_write(cell, v) report nothing, do not
\* end the run, and leave the queue as it was with one entry added at its
\* tail: Read resp. Write of that cell and value.
C12_PushAppendsOne ==
    /\ last.op = "expect_read" =>
          /\ ropq = Append(last.pre, ROp(last.adr, last.val, FALSE))
          /\ last.viol = "None" /\ ~aborted
    /\ last.op = "expect_write" =>
          /\ ropq = Append(last.pre, ROp(last.adr, last.val, TRUE))
          /\ last.viol = "None" /\ ~aborted

\* expect_write was called with an entry pending, after an earlier operation
\* had reported a violation.
C12_Witness ==
    /\ last.op = "expect_write" /\ Len(last.pre) = 1 /\ violated
    /\ Len(ropq) = 2 /\ ropq[2] = ROp(last.adr, last.val, TRUE)
    /\ ropq[1] = PreFront

\* --------------------------------------------------------------------- C13
\* C13: the address taken for a push (every &dev->cell of the sources is an
\* argument of expect_read or expect_write) is the address the same cell has
\* in every later state, whatever was read, written or pushed since; the
\* cells of the device have pairwise different addresses; taking the address
\* removes or changes none of the pending entries, reports nothing and does
\* not end the run.
C13_AddressIdentity ==
    /\ \A i \in 1..Len(pushed) : pushed[i].adr = Reg32_addr(pushedCell[i])
    /\ \A i, j \in 1..Len(Device) :
          i # j => Reg32_addr(Device[i]) # Reg32_addr(Device[j])
    /\ last.op \in {"expect_read", "expect_write"} =>
          /\ last.adr = Reg32_addr(pushedCell[Len(pushedCell)])
          /\ SubSeq(ropq, 1, Len(last.pre)) = last.pre
          /\ last.viol = "None" /\ ~aborted

\* The address of a cell was taken for a push, the cell was then written
\* (its backing word changed), and its address taken again for a later push
\* is the same.
C13_Witness ==
    /\ last.op \in {"expect_read", "expect_write"} /\ nacc >= 1
    /\ Len(pushed) = 2
    /\ pushedCell[1] = pushedCell[2] /\ pushed[1].adr = last.adr
    /\ mem[FieldIndex(pushedCell[2])] # 0

\* --------------------------------------------------------------------- C14
\* C14: a write of V to C while the head of the queue is Write(C, V) reports
\* nothing, removes the head and nothing else, and returns V.
C14_MatchingWrite ==
    (LastWrite /\ PreNonEmpty /\ PreFront = ROp(last.adr, last.val, TRUE)) =>
        /\ last.viol = "None" /\ ~aborted
        /\ Len(ropq) = Len(last.pre) - 1
        /\ ropq = Tail(last.pre)
        /\ last.ret = last.val

\* A matching write with another entry pending behind the head.
C14_Witness ==
    /\ LastWrite /\ Len(last.pre) = 2
    /\ PreFront = ROp(last.adr, last.val, TRUE)
    /\ last.viol = "None" /\ ropq = <<last.pre[2]>> /\ last.ret = last.val

\* --------------------------------------------------------------------- C15
\* C15: an access that reports UnexpectedRead or UnexpectedWrite leaves the
\* queue exactly as it was.
C15_MismatchKeepsQueue ==
    last.viol \in {"UnexpectedRead", "UnexpectedWrite"} => ropq = last.pre

\* An unexpected read with two entries pending, after which the run went on.
C15_Witness ==
    /\ LastRead /\ last.viol = "UnexpectedRead"
    /\ Len(last.pre) = 2 /\ Len(ropq) = 2 /\ Head(ropq) = PreFront
    /\ ~aborted

\* --------------------------------------------------------------------- C16
\* The operation returned to its caller (the signal did not end the run).
C16_Returned == ~aborted /\ last.ret # NoRet

\* C16 as stated: an unexpected read that returns, returns (uint32_t)-1 and
\* not the value of the head of the queue; a write that returns, returns the
\* value written.
C16_Original ==
    /\ (LastRead /\ last.viol = "UnexpectedRead" /\ C16_Returned) =>
          /\ last.ret = Sentinel
          /\ PreNonEmpty => last.ret # PreFront.val
    /\ (LastWrite /\ C16_Returned) => last.ret = last.val

\* C16 amended: an unexpected read that returns, returns (uint32_t)-1 whatever
\* the head of the queue holds, so it differs from the value of the head
\* unless that value is itself (uint32_t)-1; a write that returns, returns the
\* value written, matched or not.
C16_SentinelOnUnexpectedRead ==
    /\ (LastRead /\ last.viol = "UnexpectedRead" /\ C16_Returned) =>
          /\ last.ret = Sentinel
          /\ (PreNonEmpty /\ PreFront.val # Sentinel) => last.ret # PreFront.val
    /\ (LastWrite /\ C16_Returned) => last.ret = last.val

\* A read of another cell than the one of the expected read of 0 at the head
\* returned (uint32_t)-1.
C16_Witness ==
    /\ LastRead /\ last.viol = "UnexpectedRead" /\ C16_Returned
    /\ PreNonEmpty /\ ~PreFront.write /\ PreFront.adr # last.adr
    /\ PreFront.val = 0 /\ last.ret = Sentinel

\* --------------------------------------------------------------------- C18
\* C18: the queue starts empty; its length is always the number of
\* expect_read/expect_write calls minus the number of accesses that reported
\* no violation; only a read or a write shortens it, and by one entry.
C18_LengthConservation ==
    /\ ropq = <<>>
    /\ [](Len(ropq) = Len(pushed) - nok)
    /\ [][Len(ropq') < Len(ropq) =>
              /\ last'.op \in {"read", "write"}
              /\ Len(ropq') = Len(ropq) - 1]_vars

\* Two pushes, three accesses of which two reported a violation: one entry
\* is pending.
C18_Witness ==
    /\ prog = "script" /\ Len(pushed) = 2 /\ nacc = 3 /\ nok = 1
    /\ Len(ropq) = 1 /\ violated /\ ~aborted

\* --------------------------------------------------------------------- C17
\* C17: while a poll loop runs, every read it has made returned 0 and removed
\* one of the entries pending at its entry, so it has made no more reads than
\* there were; every evaluation of its condition either removes one entry or
\* reports UnexpectedRead, and the latter ends the loop (the run is aborted or
\* the non-zero (uint32_t)-1 is returned): a loop entered with n pending
\* entries ends within n + 1 reads.
C17_PollTerminates ==
    /\ [](poll.active =>
            /\ poll.reads <= poll.start
            /\ Len(ropq) = poll.start - poll.reads
            /\ last.op = "read" /\ last.ret = 0)
    /\ [][nacc' # nacc /\ (poll.active \/ poll'.active) =>
              /\ last'.op = "read" /\ pushed' = pushed
              /\ \/ last'.viol = "None" /\ Len(ropq') = Len(ropq) - 1
                 \/ last'.viol = "UnexpectedRead" /\ ~poll'.active
              /\ (poll.active /\ ~poll'.active) => poll.reads + 1 <= poll.start + 1
              /\ (poll.active /\ ropq = <<>>) => ~poll'.active]_vars

\* A loop entered with two expected reads of 0 pending has read both and is
\* about to evaluate its condition a third time on the empty queue.
C17_Witness ==
    /\ prog = "script" /\ poll.active
    /\ poll.start >= 2 /\ poll.reads = poll.start /\ ropq = <<>>
    /\ sigint = "SIG_IGN"
====
